---------------------------- MODULE Spec2Model ----------------------------
(***************************************************************************)
(* A model of eebit: the schema normaliser (eebit/helpers.py), the         *)
(* Bit / BitGroup / BitMask value objects (eebit/bitmask.py) and the       *)
(* BitHandler (eebit/bithandler.py).                                       *)
(*                                                                         *)
(* Python values are modelled as follows.                                  *)
(*   - a str is a sequence of one-character strings: "1-2-a" is            *)
(*     <<"1", "-", "2", "-", "a">>;                                        *)
(*   - a scalar whose Python type the code inspects (str, int or None) is  *)
(*     a record [t, s, i]: see PyStr, PyInt, PyNone;                       *)
(*   - a dict is the sequence of its <<key, value>> pairs in insertion     *)
(*     order, with pairwise distinct keys;                                 *)
(*   - a call returns Ret(v) or raises: Raise("ValueError").               *)
(***************************************************************************)
EXTENDS Integers, Sequences, FiniteSets

(***************************************************************************)
(* Bounds of the model.                                                    *)
(***************************************************************************)
\* bit positions 0 .. MaxPos are used for the groups that are built
MaxPos == 2
\* value maps are drawn over the keys 0 .. MaxKey
MaxKey == 2

VARIABLES obj, call, result

vars == <<obj, call, result>>

(***************************************************************************)
(* Python scalars, results and dicts.                                      *)
(***************************************************************************)
PyStr(s) == [t |-> "str", s |-> s, i |-> 0]
PyInt(n) == [t |-> "int", s |-> <<>>, i |-> n]
PyNone == [t |-> "none", s |-> <<>>, i |-> 0]

Ret(v) == [exc |-> "", val |-> v]
Raise(e) == [exc |-> e, val |-> <<>>]
Raised(r) == r.exc # ""

Range(f) == {f[x] : x \in DOMAIN f}
DictKeys(d) == [x \in DOMAIN d |-> d[x][1]]
DictValues(d) == [x \in DOMAIN d |-> d[x][2]]
DictHas(d, k) == \E x \in DOMAIN d : d[x][1] = k
DictGet(d, k) == d[CHOOSE x \in DOMAIN d : d[x][1] = k][2]
\* d[k] = v: an existing key keeps its place, a new key is appended
DictSet(d, k, v) ==
    IF DictHas(d, k)
    THEN [x \in DOMAIN d |-> IF d[x][1] = k THEN <<k, v>> ELSE d[x]]
    ELSE Append(d, <<k, v>>)
\* dict == dict: the same keys with equal values, in any order
DictEq(a, b) ==
    /\ Len(a) = Len(b)
    /\ \A x \in DOMAIN a : DictHas(b, a[x][1]) /\ DictGet(b, a[x][1]) = a[x][2]

Pow2(n) == 2 ^ n

(***************************************************************************)
(* Characters and the str operations the code uses.                        *)
(***************************************************************************)
Digits == <<"0", "1", "2", "3", "4", "5", "6", "7", "8", "9">>
IsDigit(c) == c \in Range(Digits)
DigitVal(c) == (CHOOSE x \in DOMAIN Digits : Digits[x] = c) - 1

\* the code point of a character (what str comparison orders by)
Ord(c) ==
    CASE c = " " -> 32
      [] c = "-" -> 45
      [] IsDigit(c) -> 48 + DigitVal(c)
      [] c = "A" -> 65
      [] c = "B" -> 66
      [] c = "X" -> 88
      [] c = "Y" -> 89
      [] c = "a" -> 97
      [] c = "b" -> 98
      [] c = "n" -> 110
      [] c = "o" -> 111
      [] c = "x" -> 120
      [] c = "y" -> 121

\* str.lower(), one character
LowerChar(c) ==
    CASE c = "A" -> "a"
      [] c = "B" -> "b"
      [] c = "X" -> "x"
      [] c = "Y" -> "y"
      [] OTHER -> c

lower(s) == [x \in DOMAIN s |-> LowerChar(s[x])]

\* a > b for two str: lexicographic by code point, a proper prefix is smaller
RECURSIVE StrGt(_, _)
StrGt(a, b) ==
    IF a = <<>> THEN FALSE
    ELSE IF b = <<>> THEN TRUE
    ELSE IF Ord(Head(a)) # Ord(Head(b)) THEN Ord(Head(a)) > Ord(Head(b))
    ELSE StrGt(Tail(a), Tail(b))

\* the index of the first "-" of s, 0 when there is none
FirstDash(s) ==
    IF \E x \in DOMAIN s : s[x] = "-"
    THEN CHOOSE x \in DOMAIN s : s[x] = "-" /\ \A y \in 1..(x - 1) : s[y] # "-"
    ELSE 0

\* s.split("-", maxsplit)
RECURSIVE Split(_, _)
Split(s, maxsplit) ==
    IF maxsplit = 0 \/ FirstDash(s) = 0 THEN <<s>>
    ELSE <<SubSeq(s, 1, FirstDash(s) - 1)>>
         \o Split(SubSeq(s, FirstDash(s) + 1, Len(s)), maxsplit - 1)

\* "-".join(parts)
RECURSIVE Join(_)
Join(parts) ==
    IF Len(parts) = 0 THEN <<>>
    ELSE IF Len(parts) = 1 THEN parts[1]
    ELSE parts[1] \o <<"-">> \o Join(Tail(parts))

\* str.strip() of blanks
RECURSIVE Strip(_)
Strip(s) ==
    IF s = <<>> THEN s
    ELSE IF Head(s) = " " THEN Strip(Tail(s))
    ELSE IF s[Len(s)] = " " THEN Strip(SubSeq(s, 1, Len(s) - 1))
    ELSE s

AllDigits(s) == s # <<>> /\ \A x \in DOMAIN s : IsDigit(s[x])

\* the value of a run of decimal digits
RECURSIVE DigitsVal(_)
DigitsVal(s) ==
    IF s = <<>> THEN 0
    ELSE 10 * DigitsVal(SubSeq(s, 1, Len(s) - 1)) + DigitVal(s[Len(s)])

\* whether int(s) succeeds for a str s: blanks around an optional sign and digits
IntParses(s) ==
    LET b == Strip(s)
    IN  IF b # <<>> /\ Head(b) = "-" THEN AllDigits(Tail(b)) ELSE AllDigits(b)

\* int(s) for a str s that parses
IntOfStr(s) ==
    LET b == Strip(s)
    IN  IF Head(b) = "-" THEN 0 - DigitsVal(Tail(b)) ELSE DigitsVal(b)

\* str(n) for an int n
RECURSIVE StrOfNat(_)
StrOfNat(n) ==
    IF n < 10 THEN <<Digits[n + 1]>>
    ELSE StrOfNat(n \div 10) \o <<Digits[(n % 10) + 1]>>

StrOfInt(n) == IF n < 0 THEN <<"-">> \o StrOfNat(0 - n) ELSE StrOfNat(n)

\* str(v) and int(v) of a scalar
str(v) == IF v.t = "int" THEN StrOfInt(v.i) ELSE v.s
int(v) == IF v.t = "int" THEN v.i ELSE IntOfStr(v.s)

(***************************************************************************)
(* Bit arithmetic on non-negative integers.                                *)
(***************************************************************************)
ShiftLeft(a, n) == a * Pow2(n)
ShiftRight(a, n) == a \div Pow2(n)

RECURSIVE BitAnd(_, _)
BitAnd(a, b) ==
    IF a = 0 \/ b = 0 THEN 0
    ELSE (a % 2) * (b % 2) + 2 * BitAnd(a \div 2, b \div 2)

RECURSIVE BitXor(_, _)
BitXor(a, b) ==
    IF a = 0 THEN b
    ELSE IF b = 0 THEN a
    ELSE ((a + b) % 2) + 2 * BitXor(a \div 2, b \div 2)

(***************************************************************************)
(* eebit/helpers.py                                                        *)
(***************************************************************************)
\* is_int(value): int(value) does not raise ValueError
is_int(value) == value.t = "int" \/ (value.t = "str" /\ IntParses(value.s))

\* is_str(value)
is_str(value) == ~is_int(value) /\ Len(value.s) > 0

format_bit_key(bit) ==
    LET parts == Split(str(bit), 2)
        p3 == IF Len(parts) = 2 THEN <<parts[1], parts[1], parts[2]>> ELSE parts
    IN  IF Len(parts) = 1 THEN Raise("ValueError")
        ELSE IF Len(parts) = 2 /\ ~(is_int(PyStr(parts[1])) /\ is_str(PyStr(parts[2])))
        THEN Raise("ValueError")
        ELSE IF /\ is_int(PyStr(p3[1]))
                /\ is_int(PyStr(p3[2]))
                /\ StrGt(p3[1], p3[2])
        THEN Raise("ValueError")
        ELSE IF ~is_int(PyStr(p3[1])) \/ ~is_int(PyStr(p3[2]))
        THEN Raise("ValueError")
        ELSE Ret(Join(p3))

\* the value of a schema entry: a str, a dict, or something else (an int)
InfoStr(s) == [t |-> "str", s |-> s, d |-> <<>>]
InfoDict(d) == [t |-> "dict", s |-> <<>>, d |-> d]
InfoOther == [t |-> "int", s |-> <<>>, d |-> <<>>]

\* the loop of format_bit_value over value.items()
RECURSIVE format_bit_value_items(_, _)
format_bit_value_items(items, formatted_value) ==
    IF items = <<>> THEN Ret(formatted_value)
    ELSE LET pos == Head(items)[1]
             val == Head(items)[2]
         IN  IF ~is_int(pos) THEN Raise("ValueError")
             ELSE IF ~is_str(PyStr(val)) THEN Raise("ValueError")
             ELSE format_bit_value_items(
                      Tail(items), DictSet(formatted_value, StrOfInt(int(pos)), val))

\* format_bit_value with line 47 in place of line 48: a bare str also gets the
\* negative label "no ..." at key "0"
format_bit_value_with_negative(value) ==
    IF value.t = "str"
    THEN Ret(<<<<<<"0">>, <<"n", "o", " ">> \o value.s>>, <<<<"1">>, value.s>>>>)
    ELSE IF value.t = "dict" THEN format_bit_value_items(value.d, <<>>)
    ELSE Raise("ValueError")

format_bit_value(value) ==
    IF value.t = "str" THEN Ret(<<<<<<"1">>, value.s>>>>)
    ELSE IF value.t = "dict" THEN format_bit_value_items(value.d, <<>>)
    ELSE Raise("ValueError")

\* info.get("1", info.get(1)) of a dict info; PyNone when neither key is there
InfoGetOne(d) ==
    IF DictHas(d, PyStr(<<"1">>)) THEN PyStr(DictGet(d, PyStr(<<"1">>)))
    ELSE IF DictHas(d, PyInt(1)) THEN PyStr(DictGet(d, PyInt(1)))
    ELSE PyNone

\* the key of one entry after the bare-position branch of format_bits_info
\* (lines 103-116): "pos" takes its name from the value
ExpandBareKey(bit, info) ==
    LET parts == Split(str(bit), 2)
    IN  IF Len(parts) = 1 /\ is_int(PyStr(parts[1]))
        THEN IF info.t = "dict" /\ Len(info.d) <= 2
             THEN IF InfoGetOne(info.d) = PyNone THEN Raise("ValueError")
                  ELSE Ret(PyStr(parts[1] \o <<"-">> \o parts[1] \o <<"-">>
                                 \o InfoGetOne(info.d).s))
             ELSE IF info.t = "str"
             THEN Ret(PyStr(parts[1] \o <<"-">> \o parts[1] \o <<"-">> \o info.s))
             ELSE Raise("ValueError")
        ELSE Ret(bit)

\* the body of the loop of format_bits_info for one entry whose key was
\* brought to "start-end-name" (lines 118-140)
FormatEntry(bit, info, final_bit_info, classes) ==
    LET parts == Split(bit, 2)
        start == IntOfStr(parts[1])
        end == IntOfStr(parts[2])
        catname == parts[3]
        nbits == end - start + 1
        formatted_info == format_bit_value(info)
    IN  IF nbits < 1 THEN Raise("ValueError")
        ELSE IF catname \in Range(classes) THEN Raise("ValueError")
        ELSE IF info.t \notin {"str", "dict"} THEN Raise("ValueError")
        ELSE IF Raised(formatted_info) THEN formatted_info
        ELSE IF Len(formatted_info.val) > Pow2(nbits) THEN Raise("ValueError")
        ELSE IF \E x \in DOMAIN formatted_info.val :
                    IntOfStr(formatted_info.val[x][1]) >= Pow2(nbits)
        THEN Raise("ValueError")
        ELSE Ret(DictSet(final_bit_info, bit, formatted_info.val))

RECURSIVE format_bits_info_items(_, _, _)
format_bits_info_items(items, final_bit_info, classes) ==
    IF items = <<>> THEN Ret(final_bit_info)
    ELSE LET info == Head(items)[2]
             expanded == ExpandBareKey(Head(items)[1], info)
             bit == IF Raised(expanded) THEN expanded ELSE format_bit_key(expanded.val)
             entry == FormatEntry(bit.val, info, final_bit_info, classes)
         IN  IF Raised(bit) THEN bit
             ELSE IF Raised(entry) THEN entry
             ELSE format_bits_info_items(
                      Tail(items), entry.val, Append(classes, Split(bit.val, 2)[3]))

format_bits_info(bits_info) == format_bits_info_items(bits_info, <<>>, <<>>)

(***************************************************************************)
(* eebit/bitmask.py: Bit                                                   *)
(***************************************************************************)
NoObject == [cls |-> "None"]

\* Bit.__init__
Bit_init(position, positive, negative) ==
    IF is_int(position)
    THEN Ret([cls |-> "Bit",
              position |-> int(position),
              positive |-> positive,
              negative |-> IF negative.t = "str" /\ negative.s # <<>>
                           THEN negative.s
                           ELSE <<"n", "o", " ">> \o positive])
    ELSE Raise("TypeError")

\* min_value shifted one position too far
Bit_min_value_next_bit(self) ==
    IF self.position < 0 THEN Raise("ValueError")
    ELSE Ret(ShiftLeft(1, self.position + 1))

\* 1 << n raises ValueError for a negative n
Bit_min_value(self) ==
    IF self.position < 0 THEN Raise("ValueError")
    ELSE Ret(ShiftLeft(1, self.position))

Bit_max_value(self) ==
    IF self.position + 1 < 0 THEN Raise("ValueError")
    ELSE Ret(ShiftLeft(1, self.position + 1) - 1)

Bit_is_positive(self, value) ==
    IF value.t # "int" THEN Raise("TypeError")
    ELSE IF Raised(Bit_min_value(self)) THEN Bit_min_value(self)
    ELSE Ret(BitAnd(value.i, Bit_min_value(self).val) # 0)

Bit_is_negative(self, value) ==
    IF value.t # "int" THEN Raise("TypeError")
    ELSE IF Raised(Bit_min_value(self)) THEN Bit_min_value(self)
    ELSE Ret(BitAnd(value.i, Bit_min_value(self).val) = 0)

(***************************************************************************)
(* eebit/bitmask.py: BitGroup                                              *)
(***************************************************************************)
\* the loop of BitGroup.__init__ over value_map.items()
RECURSIVE BitGroup_value_map_items(_, _, _)
BitGroup_value_map_items(items, n_values, _value_map) ==
    IF items = <<>> THEN Ret(_value_map)
    ELSE LET k == Head(items)[1]
             v == Head(items)[2]
         IN  IF ~is_int(k) THEN Raise("ValueError")
             ELSE IF ~is_str(PyStr(v)) THEN Raise("ValueError")
             ELSE IF DictHas(_value_map, int(k)) THEN Raise("ValueError")
             ELSE IF int(k) < 0 \/ int(k) >= n_values THEN Raise("ValueError")
             ELSE BitGroup_value_map_items(
                      Tail(items), n_values, Append(_value_map, <<int(k), lower(v)>>))

\* {v: k for k, v in value_map.items()}
RECURSIVE ReverseMap(_, _)
ReverseMap(items, reverse) ==
    IF items = <<>> THEN reverse
    ELSE ReverseMap(Tail(items), DictSet(reverse, Head(items)[2], Head(items)[1]))

\* BitGroup.__init__ without the check that a single bit with one label has
\* it at key 1
BitGroup_init_any_single_label(description, min_position, max_position, value_map) ==
    IF ~is_int(min_position) \/ ~is_int(max_position) THEN Raise("TypeError")
    ELSE IF int(min_position) < 0 \/ int(max_position) < 0 THEN Raise("ValueError")
    ELSE IF int(min_position) > int(max_position) THEN Raise("ValueError")
    ELSE LET n_values == 2 ^ (int(max_position) - int(min_position) + 1)
             _value_map == BitGroup_value_map_items(value_map, n_values, <<>>)
         IN  IF Raised(_value_map) THEN _value_map
             ELSE IF Len(_value_map.val) = 0 THEN Raise("ValueError")
             ELSE Ret([cls |-> "BitGroup",
                       description |-> lower(description),
                       min_position |-> int(min_position),
                       max_position |-> int(max_position),
                       n_values |-> n_values,
                       value_map |-> _value_map.val,
                       _reverse_value_map |-> ReverseMap(_value_map.val, <<>>)])

\* BitGroup.__init__
BitGroup_init(description, min_position, max_position, value_map) ==
    IF ~is_int(min_position) \/ ~is_int(max_position) THEN Raise("TypeError")
    ELSE IF int(min_position) < 0 \/ int(max_position) < 0 THEN Raise("ValueError")
    ELSE IF int(min_position) > int(max_position) THEN Raise("ValueError")
    ELSE LET n_values == 2 ^ (int(max_position) - int(min_position) + 1)
             _value_map == BitGroup_value_map_items(value_map, n_values, <<>>)
         IN  IF Raised(_value_map) THEN _value_map
             ELSE IF Len(_value_map.val) = 0 THEN Raise("ValueError")
             ELSE IF /\ int(min_position) = int(max_position)
                     /\ Len(_value_map.val) = 1
                     /\ ~DictHas(_value_map.val, 1)
             THEN Raise("ValueError")
             ELSE Ret([cls |-> "BitGroup",
                       description |-> lower(description),
                       min_position |-> int(min_position),
                       max_position |-> int(max_position),
                       n_values |-> n_values,
                       value_map |-> _value_map.val,
                       _reverse_value_map |-> ReverseMap(_value_map.val, <<>>)])

\* {str(k): v for k, v in d.items()}
StrKeys(d) == [x \in DOMAIN d |-> <<StrOfInt(d[x][1]), d[x][2]>>]

\* BitGroup.to_dict
BitGroup_to_dict(self) ==
    <<<<StrOfInt(self.min_position) \o <<"-">> \o StrOfInt(self.max_position)
            \o <<"-">> \o self.description,
        StrKeys(self.value_map)>>>>

BitGroup_group_mask(self) ==
    ShiftLeft(1, self.max_position - self.min_position + 1) - 1

\* decode_value without the group mask: the bits above the group stay in
BitGroup_decode_value_unmasked(self, value) ==
    LET group_value == ShiftRight(value, self.min_position)
    IN  IF DictHas(self.value_map, group_value)
        THEN PyStr(DictGet(self.value_map, group_value))
        ELSE PyNone

\* BitGroup.decode_value: value_map.get(group_value)
BitGroup_decode_value(self, value) ==
    LET group_value == BitAnd(ShiftRight(value, self.min_position),
                              BitGroup_group_mask(self))
    IN  IF DictHas(self.value_map, group_value)
        THEN PyStr(DictGet(self.value_map, group_value))
        ELSE PyNone

\* is_positive_by_key without the shift by min_position
BitGroup_is_positive_by_key_unshifted(self, value, key) ==
    IF ~is_int(key) THEN Raise("TypeError")
    ELSE IF ~DictHas(self.value_map, int(key)) THEN Raise("ValueError")
    ELSE Ret(BitAnd(value, BitGroup_group_mask(self)) = int(key))

BitGroup_is_positive_by_key(self, value, key) ==
    IF ~is_int(key) THEN Raise("TypeError")
    ELSE IF ~DictHas(self.value_map, int(key)) THEN Raise("ValueError")
    ELSE Ret(BitAnd(ShiftRight(value, self.min_position), BitGroup_group_mask(self))
             = int(key))

\* _get_key_for_bit_value that takes the key 0 for no key
BitGroup_get_key_for_bit_value_falsy(self, value) ==
    IF ~DictHas(self._reverse_value_map, value) THEN Raise("ValueError")
    ELSE IF DictGet(self._reverse_value_map, value) = 0 THEN Raise("ValueError")
    ELSE Ret(DictGet(self._reverse_value_map, value))

\* BitGroup._get_key_for_bit_value: _reverse_value_map.get(value)
BitGroup_get_key_for_bit_value(self, value) ==
    IF ~DictHas(self._reverse_value_map, value) THEN Raise("ValueError")
    ELSE Ret(DictGet(self._reverse_value_map, value))

\* BitGroup.is_positive_by_description
BitGroup_is_positive_by_description(self, value, description) ==
    LET expected_group_value == BitGroup_get_key_for_bit_value(self, description)
    IN  IF Raised(expected_group_value) THEN expected_group_value
        ELSE BitGroup_is_positive_by_key(self, value, PyInt(expected_group_value.val))

\* BitGroup.is_positive: key and description are None when they are not given
BitGroup_is_positive(self, value, key, description) ==
    IF key # PyNone /\ description # PyNone THEN Raise("ValueError")
    ELSE IF key # PyNone THEN BitGroup_is_positive_by_key(self, value, key)
    ELSE IF description # PyNone
    THEN BitGroup_is_positive_by_description(self, value, description.s)
    ELSE Raise("ValueError")

\* {int(k): v for k, v in value.items()} of a dict with str or int keys: a
\* ValueError at the first key that is no integer
RECURSIVE BitGroup_from_dict_keys(_, _)
BitGroup_from_dict_keys(items, out) ==
    IF items = <<>> THEN Ret(out)
    ELSE IF ~is_int(Head(items)[1]) THEN Raise("ValueError")
    ELSE BitGroup_from_dict_keys(
             Tail(items), DictSet(out, PyInt(int(Head(items)[1])), Head(items)[2]))

\* BitGroup.from_dict that takes the first entry of a dict of any length
BitGroup_from_dict_first_entry(bit_info) ==
    IF Len(bit_info) = 0 THEN Raise("IndexError")
    ELSE LET key == bit_info[1][1]
             value == bit_info[1][2]
             parts == Split(str(key), 2)
             value_map == BitGroup_from_dict_keys(value.d, <<>>)
         IN  IF key.t # "str" THEN Raise("AttributeError")
             ELSE IF Len(parts) # 3 THEN Raise("ValueError")
             ELSE IF ~IntParses(parts[1]) \/ ~IntParses(parts[2]) THEN Raise("ValueError")
             ELSE IF value.t # "dict" THEN Raise("AttributeError")
             ELSE IF Raised(value_map) THEN value_map
             ELSE BitGroup_init(parts[3], PyInt(IntOfStr(parts[1])),
                                PyInt(IntOfStr(parts[2])), value_map.val)

\* BitGroup.from_dict: key.split of an int key and value.items() of a str
\* value raise AttributeError, the unpacking of fewer than three parts and
\* int() of a part that is no integer raise ValueError
BitGroup_from_dict(bit_info) ==
    IF Len(bit_info) # 1 THEN Raise("ValueError")
    ELSE LET key == bit_info[1][1]
             value == bit_info[1][2]
             parts == Split(str(key), 2)
             value_map == BitGroup_from_dict_keys(value.d, <<>>)
         IN  IF key.t # "str" THEN Raise("AttributeError")
             ELSE IF Len(parts) # 3 THEN Raise("ValueError")
             ELSE IF ~IntParses(parts[1]) \/ ~IntParses(parts[2]) THEN Raise("ValueError")
             ELSE IF value.t # "dict" THEN Raise("AttributeError")
             ELSE IF Raised(value_map) THEN value_map
             ELSE BitGroup_init(parts[3], PyInt(IntOfStr(parts[1])),
                                PyInt(IntOfStr(parts[2])), value_map.val)

\* BAND_NAME_PATTERN.format(description=description, value=value)
BAND_NAME_PATTERN(description, value) == description \o <<" ", "-", " ">> \o value

\* bit_values that never puts the description first
BitGroup_bit_values_label_first(self) ==
    IF self.min_position = self.max_position
    THEN IF Len(self.value_map) = 1 THEN <<self.description>>
         ELSE <<DictGet(self.value_map, 0), self.description>>
    ELSE [x \in DOMAIN self.value_map |->
              BAND_NAME_PATTERN(self.description, self.value_map[x][2])]

\* BitGroup.bit_values
BitGroup_bit_values(self) ==
    IF self.min_position = self.max_position
    THEN IF Len(self.value_map) = 1 THEN <<self.description>>
         ELSE IF self.description = DictGet(self.value_map, 1)
         THEN <<self.description, DictGet(self.value_map, 0)>>
         ELSE <<DictGet(self.value_map, 0), self.description>>
    ELSE [x \in DOMAIN self.value_map |->
              BAND_NAME_PATTERN(self.description, self.value_map[x][2])]

\* BitGroup.get_mask_by_bit_value on a pixel of value image: the band is its
\* name and its value, 1 or 0
BitGroup_get_mask_by_bit_value(self, image, value) ==
    LET key == BitGroup_get_key_for_bit_value(self, value)
        shifted == ShiftRight(image, self.min_position)
        bit == BitAnd(shifted, BitGroup_group_mask(self))
        bname == BAND_NAME_PATTERN(self.description, value)
    IN  IF Raised(key) THEN key
        ELSE Ret(<<bname, IF bit = key.val THEN 1 ELSE 0>>)

\* BitGroup.get_masks on a pixel of value image: the bands in the order of
\* the value map
BitGroup_get_masks(self, image) ==
    [x \in DOMAIN self.value_map |->
         BitGroup_get_mask_by_bit_value(self, image, self.value_map[x][2]).val]

\* Bit.to_bit_group
Bit_to_bit_group(self, description) ==
    BitGroup_init(description, PyInt(self.position), PyInt(self.position),
                  <<<<PyInt(0), self.negative>>, <<PyInt(1), self.positive>>>>)

(***************************************************************************)
(* eebit/bitmask.py: BitMask                                               *)
(***************************************************************************)
\* the first loop of BitMask.__init__ without the check of the descriptions
RECURSIVE BitMask_groups_unchecked(_, _)
BitMask_groups_unchecked(bits, _bits) ==
    IF bits = <<>> THEN Ret(_bits)
    ELSE LET bit == Head(bits)
             group == IF bit.cls = "Bit" THEN Bit_to_bit_group(bit, bit.positive)
                      ELSE Ret(bit)
         IN  IF Raised(group) THEN group
             ELSE IF group.val.cls # "BitGroup" THEN Raise("TypeError")
             ELSE BitMask_groups_unchecked(Tail(bits), Append(_bits, group.val))

\* the first loop of BitMask.__init__: promote the Bits, reject a repeated
\* description
RECURSIVE BitMask_groups(_, _)
BitMask_groups(bits, _bits) ==
    IF bits = <<>> THEN Ret(_bits)
    ELSE LET bit == Head(bits)
             group == IF bit.cls = "Bit" THEN Bit_to_bit_group(bit, bit.positive)
                      ELSE Ret(bit)
         IN  IF Raised(group) THEN group
             ELSE IF group.val.cls # "BitGroup" THEN Raise("TypeError")
             ELSE IF \E x \in DOMAIN _bits :
                         _bits[x].description = group.val.description
             THEN Raise("ValueError")
             ELSE BitMask_groups(Tail(bits), Append(_bits, group.val))

\* the second loop of BitMask.__init__: all_positions grows one position at a
\* time and a position already in it raises
RECURSIVE BitMask_positions(_, _, _)
BitMask_positions(_bits, pos, all_positions) ==
    IF _bits = <<>> THEN Ret(all_positions)
    ELSE IF pos > Head(_bits).max_position
    THEN IF Len(_bits) = 1 THEN Ret(all_positions)
         ELSE BitMask_positions(Tail(_bits), _bits[2].min_position, all_positions)
    ELSE IF pos \in Range(all_positions) THEN Raise("ValueError")
    ELSE BitMask_positions(_bits, pos + 1, Append(all_positions, pos))

\* the overlap check on the first position of each group only
RECURSIVE BitMask_min_positions(_, _)
BitMask_min_positions(_bits, all_positions) ==
    IF _bits = <<>> THEN Ret(all_positions)
    ELSE IF Head(_bits).min_position \in Range(all_positions) THEN Raise("ValueError")
    ELSE BitMask_min_positions(Tail(_bits), Append(all_positions, Head(_bits).min_position))

BitMask_all_positions_min_only(_bits) == BitMask_min_positions(_bits, <<>>)

BitMask_all_positions(_bits) ==
    IF _bits = <<>> THEN Ret(<<>>)
    ELSE BitMask_positions(_bits, _bits[1].min_position, <<>>)

\* BitMask.__init__
\* BitMask.__init__ after its first loop, _bits what the loop built or raised
BitMask_init_bits(_bits, total) ==
    IF Raised(_bits) THEN _bits
    ELSE IF Raised(BitMask_all_positions(_bits.val)) THEN Raise("ValueError")
    ELSE IF (total.t = "none" \/ total.i = 0) /\ _bits.val = <<>>
    THEN Raise("IndexError")
    ELSE Ret([cls |-> "BitMask",
              bits |-> _bits.val,
              total |-> IF total.t = "none" \/ total.i = 0
                        THEN _bits.val[Len(_bits.val)].max_position + 1
                        ELSE total.i])

BitMask_init(bits, total) == BitMask_init_bits(BitMask_groups(bits, <<>>), total)

\* BitMask.to_dict
RECURSIVE BitMask_to_dict_groups(_, _)
BitMask_to_dict_groups(bits, final) ==
    IF bits = <<>> THEN final
    ELSE BitMask_to_dict_groups(
             Tail(bits),
             DictSet(final, BitGroup_to_dict(Head(bits))[1][1],
                     BitGroup_to_dict(Head(bits))[1][2]))

BitMask_to_dict(self) == BitMask_to_dict_groups(self.bits, <<>>)

\* {int(k): v for k, v in value.items()}, the keys kept as Python ints
RECURSIVE IntKeys(_, _)
IntKeys(items, out) ==
    IF items = <<>> THEN out
    ELSE IntKeys(Tail(items),
                 DictSet(out, PyInt(IntOfStr(Head(items)[1])), Head(items)[2]))

\* the loop of BitMask.from_dict over formatted.items()
RECURSIVE BitMask_from_dict_groups(_, _)
BitMask_from_dict_groups(items, groups) ==
    IF items = <<>> THEN Ret(groups)
    ELSE LET parts == Split(Head(items)[1], 2)
             group == BitGroup_init(parts[3], PyInt(IntOfStr(parts[1])),
                                    PyInt(IntOfStr(parts[2])),
                                    IntKeys(Head(items)[2], <<>>))
         IN  IF Raised(group) THEN group
             ELSE BitMask_from_dict_groups(Tail(items), Append(groups, group.val))

\* BitMask.from_dict
\* cls(groups) of the groups the loop has built, or what the loop raised
BitMask_from_dict_cls(groups) ==
    IF Raised(groups) THEN groups ELSE BitMask_init(groups.val, PyNone)

\* BitMask.from_dict after formatted = helpers.format_bits_info(bits_info)
BitMask_from_dict_formatted(formatted) ==
    IF Raised(formatted) THEN formatted
    ELSE BitMask_from_dict_cls(BitMask_from_dict_groups(formatted.val, <<>>))

BitMask_from_dict(bits_info) ==
    BitMask_from_dict_formatted(format_bits_info(bits_info))

\* BitMask.decode_value
RECURSIVE BitMask_decode_groups(_, _, _)
BitMask_decode_groups(bits, value, decoded) ==
    IF bits = <<>> THEN decoded
    ELSE BitMask_decode_groups(
             Tail(bits), value,
             DictSet(decoded, Head(bits).description,
                     BitGroup_decode_value(Head(bits), value)))

\* decode_value that leaves out the groups whose bits have no label
RECURSIVE BitMask_decode_groups_dropping(_, _, _)
BitMask_decode_groups_dropping(bits, value, decoded) ==
    IF bits = <<>> THEN decoded
    ELSE BitMask_decode_groups_dropping(
             Tail(bits), value,
             IF BitGroup_decode_value(Head(bits), value) = PyNone THEN decoded
             ELSE DictSet(decoded, Head(bits).description,
                          BitGroup_decode_value(Head(bits), value)))

BitMask_decode_value_dropping(self, value) ==
    BitMask_decode_groups_dropping(self.bits, value, <<>>)

BitMask_decode_value(self, value) == BitMask_decode_groups(self.bits, value, <<>>)

\* [bit for bit in self.bits if bit.description == description]
RECURSIVE BitMask_groups_by_description(_, _)
BitMask_groups_by_description(bits, description) ==
    IF bits = <<>> THEN <<>>
    ELSE (IF Head(bits).description = description THEN <<Head(bits)>> ELSE <<>>)
             \o BitMask_groups_by_description(Tail(bits), description)

\* BitMask.get_group_by_description
BitMask_get_group_by_description(self, description) ==
    LET bits == BitMask_groups_by_description(self.bits, description)
    IN  IF Len(bits) = 0 THEN Raise("ValueError") ELSE Ret(bits[1])

\* BitMask.bit_values()
RECURSIVE BitMask_bit_values_groups(_, _)
BitMask_bit_values_groups(bits, values) ==
    IF bits = <<>> THEN values
    ELSE BitMask_bit_values_groups(Tail(bits), values \o BitGroup_bit_values(Head(bits)))

BitMask_bit_values(self) == BitMask_bit_values_groups(self.bits, <<>>)

\* BitMask.get_masks on a pixel of value image: the bands of the groups, one
\* group after the other
RECURSIVE BitMask_get_masks_groups(_, _, _)
BitMask_get_masks_groups(bits, image, masks) ==
    IF bits = <<>> THEN masks
    ELSE BitMask_get_masks_groups(
             Tail(bits), image, masks \o BitGroup_get_masks(Head(bits), image))

BitMask_get_masks(self, image) == BitMask_get_masks_groups(self.bits, image, <<>>)

(***************************************************************************)
(* eebit/bithandler.py: BitHandler                                         *)
(***************************************************************************)
\* min() and max() of a list that is not empty
Min(list) == CHOOSE m \in Range(list) : \A x \in Range(list) : m <= x
Max(list) == CHOOSE m \in Range(list) : \A x \in Range(list) : x <= m

\* BitHandler.all_bits, first use: helpers has no decode_key, so the body of
\* the loop raises AttributeError at the first key; with no key the list is
\* empty
BitHandler_all_bits(bits) ==
    IF bits = <<>> THEN Ret(<<>>) ELSE Raise("AttributeError")

\* len(range(min(self.all_bits), max(self.all_bits) + 1)); min() of an empty
\* list raises ValueError
BitHandler_bit_length(bits) ==
    LET all_bits == BitHandler_all_bits(bits)
    IN  IF Raised(all_bits) THEN all_bits
        ELSE IF all_bits.val = <<>> THEN Raise("ValueError")
        ELSE Ret(Max(all_bits.val) + 1 - Min(all_bits.val))

\* BitHandler.__init__: all_bits is looked at only when bit_length is None or 0
BitHandler_init_formatted(formatted, bit_length) ==
    LET computed == BitHandler_bit_length(formatted.val)
    IN  IF Raised(formatted) THEN formatted
        ELSE IF bit_length.t = "none" \/ bit_length.i = 0
        THEN IF Raised(computed) THEN computed
             ELSE Ret([cls |-> "BitHandler", bits |-> formatted.val,
                       bit_length |-> computed.val])
        ELSE Ret([cls |-> "BitHandler", bits |-> formatted.val,
                  bit_length |-> bit_length.i])

BitHandler_init(bits, bit_length) ==
    BitHandler_init_formatted(format_bits_info(bits), bit_length)

\* the inner loop of decode_image: one band <<name, pixel>> per mapped value,
\* ee.Image(int(position)).eq(decoded).rename(val)
RECURSIVE BitHandler_masks(_, _, _)
BitHandler_masks(values, decoded, masks) ==
    IF values = <<>> THEN masks
    ELSE BitHandler_masks(
             Tail(values), decoded,
             Append(masks, <<Head(values)[2],
                             IF IntOfStr(Head(values)[1]) = decoded THEN 1 ELSE 0>>))

\* the outer loop of decode_image on a pixel of value to_decode:
\* start, end = positions.split("-") raises ValueError unless the key has
\* exactly two parts
RECURSIVE BitHandler_decode_items(_, _, _)
BitHandler_decode_items(items, to_decode, masks) ==
    IF items = <<>> THEN Ret(masks)
    ELSE LET parts == Split(Head(items)[1], Len(Head(items)[1]))
             start == IntOfStr(parts[1])
             end == IntOfStr(parts[2]) + 1
             decoded == ShiftRight(
                            BitXor(ShiftLeft(ShiftRight(to_decode, end), end), to_decode),
                            start)
         IN  IF Len(parts) # 2 THEN Raise("ValueError")
             ELSE IF ~IntParses(parts[1]) \/ ~IntParses(parts[2]) THEN Raise("ValueError")
             ELSE BitHandler_decode_items(
                      Tail(items), to_decode,
                      BitHandler_masks(Head(items)[2], decoded, masks))

\* BitHandler.decode_image, on the value of one pixel of the band
BitHandler_decode_image(self, to_decode) ==
    BitHandler_decode_items(self.bits, to_decode, <<>>)

(***************************************************************************)
(* The inputs the calls are made with.                                     *)
(***************************************************************************)
Positions == 0 .. MaxPos
\* positions written with one and with two digits
KeyPositions == Positions \cup {9, 10}
\* the integers decoded: every combination of the bits 0 .. MaxPos + 1
Values == 0 .. (Pow2(MaxPos + 2) - 1)

Names == {<<"a">>, <<"B">>}
\* the label of key k, in lower or in upper case
LabelOf(k, upper) == <<IF upper THEN "X" ELSE "x">> \o StrOfNat(k)

\* the keys of a set K of naturals in ascending order
RECURSIVE Ascending(_)
Ascending(K) ==
    IF K = {} THEN <<>>
    ELSE LET m == CHOOSE x \in K : \A y \in K : x <= y
         IN  <<m>> \o Ascending(K \ {m})

\* a value map over the keys K: str or int keys, lower or upper case labels
ValueMapOf(K, intkeys, upper) ==
    [x \in DOMAIN Ascending(K) |->
        <<IF intkeys THEN PyInt(Ascending(K)[x]) ELSE PyStr(StrOfNat(Ascending(K)[x])),
          LabelOf(Ascending(K)[x], upper)>>]

\* value maps of one entry with a key or a label that is out of the ordinary:
\* a negative key, a key that is no integer, an empty label, an integer label
OddValueMaps ==
    {<<<<PyStr(<<"-", "1">>), LabelOf(1, FALSE)>>>>,
     <<<<PyInt(0 - 1), LabelOf(1, FALSE)>>>>,
     <<<<PyStr(<<"x">>), LabelOf(1, FALSE)>>>>,
     <<<<PyStr(<<"1">>), <<>>>>>>,
     <<<<PyStr(<<"1">>), <<"7">>>>>>}

\* value maps in which two keys that differ are the same integer: "1" and
\* "01", and 1 and "1"
TwiceKeyedValueMaps ==
    {<<<<PyStr(<<"1">>), LabelOf(1, FALSE)>>, <<PyStr(<<"0", "1">>), LabelOf(0, FALSE)>>>>,
     <<<<PyInt(1), LabelOf(1, FALSE)>>, <<PyStr(<<"1">>), LabelOf(0, FALSE)>>>>}

\* a value map whose two labels differ in case only
SameLabelValueMaps ==
    {<<<<PyInt(0), LabelOf(1, TRUE)>>, <<PyInt(1), LabelOf(1, FALSE)>>>>}

ValueMaps ==
    {ValueMapOf(K, FALSE, u) : K \in SUBSET (0 .. MaxKey), u \in BOOLEAN}
    \cup {ValueMapOf(K, TRUE, FALSE) : K \in SUBSET (0 .. MaxKey)}
    \cup OddValueMaps
    \cup TwiceKeyedValueMaps
    \cup SameLabelValueMaps

Infos ==
    {InfoStr(LabelOf(1, u)) : u \in BOOLEAN}
    \cup {InfoDict(vm) : vm \in ValueMaps}
    \cup {InfoOther}

ThreePartKeys(P, N) ==
    {PyStr(StrOfInt(s) \o <<"-">> \o StrOfInt(e) \o <<"-">> \o n) :
        s \in P, e \in P, n \in N}
TwoPartKeys(P, N) == {PyStr(StrOfInt(s) \o <<"-">> \o n) : s \in P, n \in N}
BareKeys(P) == {PyStr(StrOfInt(s)) : s \in P}

MalformedKeys ==
    {PyStr(<<>>), PyStr(<<"a">>), PyStr(<<"a", "-", "1">>), PyStr(<<"-", "1">>),
     PyStr(<<"1", "-">>), PyStr(<<"1", "-", "1">>), PyInt(1)}

\* the keys format_bit_key is called with
BitKeys ==
    ThreePartKeys(KeyPositions, Names \cup {<<>>, <<"7">>, <<"a", "-", "b">>})
    \cup TwoPartKeys(KeyPositions, Names \cup {<<>>, <<"7">>})
    \cup BareKeys(KeyPositions)
    \cup MalformedKeys

\* schemas of one entry: every shape of key and of value
Schemas1 ==
    {<<<<k, info>>>> :
        k \in ThreePartKeys(KeyPositions, Names) \cup TwoPartKeys(KeyPositions, Names)
              \cup BareKeys(KeyPositions) \cup ThreePartKeys(Positions, {<<>>}),
        info \in Infos}

\* the entries of the schemas of two entries
Entries2 ==
    {<<k, info>> :
        k \in {x \in ThreePartKeys(Positions, Names) : ~Raised(format_bit_key(x))}
              \cup BareKeys(Positions),
        info \in {InfoStr(LabelOf(1, FALSE)),
                  InfoDict(ValueMapOf({1}, FALSE, FALSE)),
                  InfoDict(ValueMapOf({0, 1}, FALSE, FALSE)),
                  InfoDict(ValueMapOf({0, 1}, FALSE, TRUE))}}

\* a dict holds a key once
Schemas2 == {s \in Entries2 \X Entries2 : s[1][1] # s[2][1]}

Schemas == Schemas1 \cup Schemas2

\* what BitGroup.from_dict is given: no entry, one entry of every shape, and
\* two entries with the same value map
GroupDicts ==
    {<<>>}
    \cup Schemas1
    \cup {s \in Schemas2 : s[1][2] = s[2][2] /\ s[1][2].t = "dict"}

\* the schema a BitGroup writes, as a dict given to from_dict: str keys, a
\* dict value
AsSchema(d) ==
    [x \in DOMAIN d |->
        <<PyStr(d[x][1]),
          InfoDict([y \in DOMAIN d[x][2] |-> <<PyStr(d[x][2][y][1]), d[x][2][y][2]>>])>>]

\* the positions a Bit or a BitGroup is built with: ints and a str
PyPositions == {PyInt(p) : p \in (Positions \cup {0 - 1})} \cup {PyStr(<<"1">>)}

\* the keys is_positive_by_key is called with: ints and their str
PyKeys ==
    {PyInt(k) : k \in 0 .. (MaxKey + 1)}
    \cup {PyStr(StrOfNat(k)) : k \in 0 .. (MaxKey + 1)}
    \cup {PyStr(<<"x">>)}

\* the labels is_positive_by_description is called with: the labels of the
\* value maps in both cases, and one no value map has
Labels ==
    {LabelOf(k, u) : k \in 0 .. MaxKey, u \in BOOLEAN} \cup {<<"z">>}

\* the key and the description is_positive is called with, None for one that
\* is not given
OptionalKeys == {PyNone, PyInt(1)}
OptionalLabels == {PyNone, PyStr(LabelOf(1, FALSE)), PyStr(<<"z">>)}

\* the descriptions get_group_by_description is called with: the names and
\* the labels of the schemas as they are written there
Descriptions == Names \cup {LabelOf(1, u) : u \in BOOLEAN}

\* the value maps of the groups that are asked about a label as it was
\* written: int keys, labels in lower or in upper case
WrittenValueMaps ==
    {ValueMapOf(K, TRUE, u) : K \in (SUBSET (0 .. MaxKey)) \ {{}}, u \in BOOLEAN}

\* the Bits and the BitGroups a BitMask is built from
ListBits ==
    {Bit_init(PyInt(p), LabelOf(1, u), PyNone).val : p \in Positions, u \in BOOLEAN}
ListGroups ==
    {r.val : r \in
        {x \in {BitGroup_init(n, PyInt(s), PyInt(e), vm) :
                    n \in Names, s \in Positions, e \in Positions,
                    vm \in {ValueMapOf({1}, TRUE, FALSE),
                            ValueMapOf({0, 1}, TRUE, FALSE)}} :
            ~Raised(x)}}
BitLists ==
    {<<>>}
    \cup {<<b>> : b \in ListBits} \cup {<<g>> : g \in ListGroups}
    \cup {<<b, g>> : b \in ListBits, g \in ListGroups}
    \cup {<<g, b>> : g \in ListGroups, b \in ListBits}
    \cup {<<b1, b2>> : b1 \in ListBits, b2 \in ListBits}
    \cup {<<g1, g2>> : g1 \in ListGroups, g2 \in ListGroups}

Totals == {PyNone, PyInt(0), PyInt(MaxPos + 2)}

\* the bit_length a BitHandler is built with
BitLengths == {PyNone, PyInt(0), PyInt(MaxPos + 2)}

(***************************************************************************)
(* The calls.  A call records itself in call and what it returned or       *)
(* raised in result; a constructor that returns leaves its object in obj,  *)
(* one that raises leaves none.                                            *)
(***************************************************************************)
Called(fn, args) == call' = [fn |-> fn, args |-> args]

\* a session makes one top-level call, then calls the methods of what it built
Fresh == call.fn = ""

\* the methods leave the object as it is, so a second method call reaches no
\* state that a first one does not: a method is called on a newly built object
Built(cls) ==
    /\ obj.cls = cls
    /\ call.fn \in {"Bit", "BitGroup", "BitMask", "BitMask.from_dict", "BitHandler"}

Construct(r) ==
    /\ result' = r
    /\ obj' = IF Raised(r) THEN NoObject ELSE r.val

\* helpers.format_bit_key(bit)
FormatBitKey ==
    /\ Fresh
    /\ \E bit \in BitKeys :
           /\ Called("format_bit_key", <<bit>>)
           /\ result' = format_bit_key(bit)
           /\ UNCHANGED obj

\* helpers.format_bits_info(bits_info)
FormatBitsInfo ==
    /\ Fresh
    /\ \E bits_info \in Schemas :
           /\ Called("format_bits_info", <<bits_info>>)
           /\ result' = format_bits_info(bits_info)
           /\ UNCHANGED obj

\* Bit(position, positive, negative)
BitInit ==
    /\ Fresh
    /\ \E position \in PyPositions \cup {PyStr(<<"x">>)}, u \in BOOLEAN,
          negative \in {PyNone, PyStr(<<>>), PyStr(LabelOf(0, FALSE))} :
           /\ Called("Bit", <<position, LabelOf(1, u), negative>>)
           /\ Construct(Bit_init(position, LabelOf(1, u), negative))

BitMinValue ==
    /\ Built("Bit")
    /\ Called("Bit.min_value", <<>>)
    /\ result' = Bit_min_value(obj)
    /\ UNCHANGED obj

BitMaxValue ==
    /\ Built("Bit")
    /\ Called("Bit.max_value", <<>>)
    /\ result' = Bit_max_value(obj)
    /\ UNCHANGED obj

BitIsPositive ==
    /\ Built("Bit")
    /\ \E value \in Values :
           /\ Called("Bit.is_positive", <<value>>)
           /\ result' = Bit_is_positive(obj, PyInt(value))
           /\ UNCHANGED obj

BitIsNegative ==
    /\ Built("Bit")
    /\ \E value \in Values :
           /\ Called("Bit.is_negative", <<value>>)
           /\ result' = Bit_is_negative(obj, PyInt(value))
           /\ UNCHANGED obj

\* bit.to_bit_group(description)
BitToBitGroup ==
    /\ Built("Bit")
    /\ \E description \in Names :
           /\ Called("Bit.to_bit_group", <<description>>)
           /\ result' = Bit_to_bit_group(obj, description)
           /\ UNCHANGED obj

\* BitGroup(description, min_position, max_position, value_map)
BitGroupInit ==
    /\ Fresh
    /\ \E description \in Names, min_position \in PyPositions,
          max_position \in PyPositions, value_map \in ValueMaps :
           /\ Called("BitGroup", <<description, min_position, max_position, value_map>>)
           /\ Construct(BitGroup_init(description, min_position, max_position, value_map))

\* BitGroup.from_dict(bit_info)
BitGroupFromDict ==
    /\ Fresh
    /\ \E bit_info \in GroupDicts :
           /\ Called("BitGroup.from_dict", <<bit_info>>)
           /\ Construct(BitGroup_from_dict(bit_info))

\* BitGroup.from_dict(group.to_dict()) of the group that was built, which
\* stays in obj; the group read back is in result
BitGroupFromToDict ==
    /\ Built("BitGroup")
    /\ Called("BitGroup.from_dict", <<AsSchema(BitGroup_to_dict(obj))>>)
    /\ result' = BitGroup_from_dict(AsSchema(BitGroup_to_dict(obj)))
    /\ UNCHANGED obj

BitGroupToDict ==
    /\ Built("BitGroup")
    /\ Called("BitGroup.to_dict", <<>>)
    /\ result' = Ret(BitGroup_to_dict(obj))
    /\ UNCHANGED obj

BitGroupDecodeValue ==
    /\ Built("BitGroup")
    /\ \E value \in Values :
           /\ Called("BitGroup.decode_value", <<value>>)
           /\ result' = Ret(BitGroup_decode_value(obj, value))
           /\ UNCHANGED obj

BitGroupIsPositiveByKey ==
    /\ Built("BitGroup")
    /\ \E value \in Values, key \in PyKeys :
           /\ Called("BitGroup.is_positive_by_key", <<value, key>>)
           /\ result' = BitGroup_is_positive_by_key(obj, value, key)
           /\ UNCHANGED obj

\* group.is_positive_by_description(value, description)
BitGroupIsPositiveByDescription ==
    /\ Built("BitGroup")
    /\ \E value \in Values, description \in Labels :
           /\ Called("BitGroup.is_positive_by_description", <<value, description>>)
           /\ result' = BitGroup_is_positive_by_description(obj, value, description)
           /\ UNCHANGED obj

\* group.is_positive(value, key, description)
BitGroupIsPositive ==
    /\ Built("BitGroup")
    /\ \E value \in Values, key \in OptionalKeys, description \in OptionalLabels :
           /\ Called("BitGroup.is_positive", <<value, key, description>>)
           /\ result' = BitGroup_is_positive(obj, value, key, description)
           /\ UNCHANGED obj

\* group.bit_values
BitGroupBitValues ==
    /\ Built("BitGroup")
    /\ Called("BitGroup.bit_values", <<>>)
    /\ result' = Ret(BitGroup_bit_values(obj))
    /\ UNCHANGED obj

\* group.get_masks(image), on a pixel of the image
BitGroupGetMasks ==
    /\ Built("BitGroup")
    /\ \E image \in Values :
           /\ Called("BitGroup.get_masks", <<image>>)
           /\ result' = Ret(BitGroup_get_masks(obj, image))
           /\ UNCHANGED obj

\* BitGroup(description, min_position, max_position,
\* value_map).is_positive_by_description(value, label), label a label of
\* value_map as it is written there: the group is built and asked in one go,
\* the call keeps the value map as it was written
BitGroupInitIsPositiveByDescription ==
    /\ Fresh
    /\ \E min_position \in Positions, max_position \in Positions,
          value_map \in WrittenValueMaps, value \in Values :
           LET group == BitGroup_init(<<"a">>, PyInt(min_position),
                                      PyInt(max_position), value_map)
           IN  /\ ~Raised(group)
               /\ \E label \in {value_map[y][2] : y \in DOMAIN value_map} :
                      /\ Called("BitGroup().is_positive_by_description",
                                <<<<"a">>, PyInt(min_position), PyInt(max_position),
                                  value_map, value, label>>)
                      /\ obj' = group.val
                      /\ result' = BitGroup_is_positive_by_description(
                                        group.val, value, label)

\* BitMask(bits, total)
BitMaskInit ==
    /\ Fresh
    /\ \E bits \in BitLists, total \in Totals :
           /\ Called("BitMask", <<bits, total>>)
           /\ Construct(BitMask_init(bits, total))

\* BitMask.from_dict(bits_info)
BitMaskFromDict ==
    /\ Fresh
    /\ \E bits_info \in Schemas :
           /\ Called("BitMask.from_dict", <<bits_info>>)
           /\ Construct(BitMask_from_dict(bits_info))

BitMaskToDict ==
    /\ Built("BitMask")
    /\ Called("BitMask.to_dict", <<>>)
    /\ result' = Ret(BitMask_to_dict(obj))
    /\ UNCHANGED obj

BitMaskDecodeValue ==
    /\ Built("BitMask")
    /\ \E value \in Values :
           /\ Called("BitMask.decode_value", <<value>>)
           /\ result' = Ret(BitMask_decode_value(obj, value))
           /\ UNCHANGED obj

\* mask.bit_values()
BitMaskBitValues ==
    /\ Built("BitMask")
    /\ Called("BitMask.bit_values", <<>>)
    /\ result' = Ret(BitMask_bit_values(obj))
    /\ UNCHANGED obj

\* mask.get_masks(image), on a pixel of the image
BitMaskGetMasks ==
    /\ Built("BitMask")
    /\ \E image \in Values :
           /\ Called("BitMask.get_masks", <<image>>)
           /\ result' = Ret(BitMask_get_masks(obj, image))
           /\ UNCHANGED obj

\* BitMask.from_dict(bits_info).get_group_by_description(description), called
\* on the mask from_dict has just built: the call keeps the schema as it was
\* written
BitMaskFromDictGetGroupByDescription ==
    /\ obj.cls = "BitMask"
    /\ call.fn = "BitMask.from_dict"
    /\ \E description \in Descriptions :
           /\ Called("BitMask.from_dict().get_group_by_description",
                     <<call.args[1], description>>)
           /\ result' = BitMask_get_group_by_description(obj, description)
           /\ UNCHANGED obj

\* BitHandler(bits, bit_length)
BitHandlerInit ==
    /\ Fresh
    /\ \E bits \in Schemas \cup {<<>>}, bit_length \in BitLengths :
           /\ Called("BitHandler", <<bits, bit_length>>)
           /\ Construct(BitHandler_init(bits, bit_length))

\* BitHandler.decode_image(image, band), image with one pixel of that value
BitHandlerDecodeImage ==
    /\ Built("BitHandler")
    /\ \E value \in Values :
           /\ Called("BitHandler.decode_image", <<value>>)
           /\ result' = BitHandler_decode_image(obj, value)
           /\ UNCHANGED obj

\* nothing is built and nothing was called
Init ==
    /\ obj = NoObject
    /\ call = [fn |-> "", args |-> <<>>]
    /\ result = Ret(<<>>)

Next ==
    \/ FormatBitKey
    \/ FormatBitsInfo
    \/ BitInit
    \/ BitMinValue
    \/ BitMaxValue
    \/ BitIsPositive
    \/ BitIsNegative
    \/ BitToBitGroup
    \/ BitGroupInit
    \/ BitGroupFromDict
    \/ BitGroupFromToDict
    \/ BitGroupToDict
    \/ BitGroupDecodeValue
    \/ BitGroupIsPositiveByKey
    \/ BitGroupIsPositiveByDescription
    \/ BitGroupIsPositive
    \/ BitGroupBitValues
    \/ BitGroupGetMasks
    \/ BitGroupInitIsPositiveByDescription
    \/ BitMaskInit
    \/ BitMaskFromDict
    \/ BitMaskToDict
    \/ BitMaskDecodeValue
    \/ BitMaskBitValues
    \/ BitMaskGetMasks
    \/ BitMaskFromDictGetGroupByDescription
    \/ BitHandlerInit
    \/ BitHandlerDecodeImage

Spec == Init /\ [][Next]_vars


(***************************************************************************)
(* What the claims are stated with.                                        *)
(***************************************************************************)
\* a str that is the decimal writing of a natural number
IsDecimal(s) == AllDigits(s) /\ StrOfNat(DigitsVal(s)) = s

\* the group value: bits min_position .. max_position of value, as a number
ExtractedKey(group, value) ==
    (value \div (2 ^ group.min_position))
        % (2 ^ (group.max_position - group.min_position + 1))

\* the value map of a group holds every key of [0, n_values)
CompleteMap(group) ==
    \A k \in 0 .. (2 ^ (group.max_position - group.min_position + 1) - 1) :
        DictHas(group.value_map, k)

\* one entry of a schema is in canonical form: a str key "start-end-name" with
\* decimal start <= end and a name, a dict value with decimal str keys below
\* 2^width and labels that are non-empty and no integers
CanonicalEntry(entry) ==
    LET parts == Split(entry[1].s, 2)
    IN  /\ entry[1].t = "str"
        /\ Len(parts) = 3
        /\ IsDecimal(parts[1]) /\ IsDecimal(parts[2])
        /\ DigitsVal(parts[1]) <= DigitsVal(parts[2])
        /\ parts[3] # <<>>
        /\ entry[2].t = "dict"
        /\ Len(entry[2].d) <= 2 ^ (DigitsVal(parts[2]) - DigitsVal(parts[1]) + 1)
        /\ \A x \in DOMAIN entry[2].d :
               /\ entry[2].d[x][1].t = "str"
               /\ IsDecimal(entry[2].d[x][1].s)
               /\ DigitsVal(entry[2].d[x][1].s)
                      < 2 ^ (DigitsVal(parts[2]) - DigitsVal(parts[1]) + 1)
               /\ entry[2].d[x][2] # <<>>
               /\ ~IntParses(entry[2].d[x][2])

\* a schema in canonical form, its names pairwise distinct
CanonicalSchema(S) ==
    /\ \A x \in DOMAIN S : CanonicalEntry(S[x])
    /\ \A x, y \in DOMAIN S :
           x # y => lower(Split(S[x][1].s, 2)[3]) # lower(Split(S[y][1].s, 2)[3])

\* the bit positions the key of a schema entry claims
KeyRange(key) ==
    LET parts == Split(str(key), 2)
    IN  IF Len(parts) = 3 /\ IntParses(parts[1]) /\ IntParses(parts[2])
        THEN IntOfStr(parts[1]) .. IntOfStr(parts[2])
        ELSE IF IntParses(parts[1]) THEN {IntOfStr(parts[1])}
        ELSE {}

SchemaOverlaps(S) ==
    \E x, y \in DOMAIN S : x # y /\ KeyRange(S[x][1]) \cap KeyRange(S[y][1]) # {}

\* a canonical schema that a BitMask can hold: no value map empty, a one-bit
\* group with one label has it at key 1, no position claimed twice
ValidSchema(S) ==
    /\ CanonicalSchema(S)
    /\ ~SchemaOverlaps(S)
    /\ \A x \in DOMAIN S :
           /\ S[x][2].d # <<>>
           /\ (Cardinality(KeyRange(S[x][1])) = 1 /\ Len(S[x][2].d) = 1)
                  => S[x][2].d[1][1].s = <<"1">>

\* a returned schema equals the canonical schema S: the same keys, each with
\* the same value map
PlainValueMap(d) == [x \in DOMAIN d |-> <<d[x][1].s, d[x][2]>>]
SchemaEq(out, S) ==
    /\ Len(out) = Len(S)
    /\ \A x \in DOMAIN S :
           /\ DictHas(out, S[x][1].s)
           /\ DictEq(DictGet(out, S[x][1].s), PlainValueMap(S[x][2].d))

\* the positions an element of the list given to BitMask claims
ItemRange(bit) ==
    IF bit.cls = "Bit" THEN {bit.position} ELSE bit.min_position .. bit.max_position

ListOverlaps(bits) ==
    \E x, y \in DOMAIN bits : x # y /\ ItemRange(bits[x]) \cap ItemRange(bits[y]) # {}

\* {"0": "no L", "1": L}
WithNegative(L) == <<<<<<"0">>, <<"n", "o", " ">> \o L>>, <<<<"1">>, L>>>>

(***************************************************************************)
(* The claims.                                                             *)
(***************************************************************************)

\* C1: for every valid canonical schema S, in any letter case,
\* BitMask.from_dict(S) succeeds and its to_dict() equals S.
C1_RoundTrip ==
    (call.fn = "BitMask.from_dict" /\ ValidSchema(call.args[1]))
        => (~Raised(result) /\ SchemaEq(BitMask_to_dict(obj), call.args[1]))

\* C2: is_positive_by_key(v, k), k an int or its decimal str, returns whether
\* the bits of the group in v are k when k is a key of value_map, and raises
\* when it is not.
C2_IsPositiveByKey ==
    call.fn = "BitGroup.is_positive_by_key"
        => LET value == call.args[1]
               key == call.args[2]
               k == IF key.t = "int" THEN key.i ELSE DigitsVal(key.s)
           IN  IF (key.t = "int" \/ IsDecimal(key.s)) /\ DictHas(obj.value_map, k)
               THEN ~Raised(result) /\ (result.val <=> ExtractedKey(obj, value) = k)
               ELSE Raised(result)

C2_Witness ==
    /\ call.fn = "BitGroup.is_positive_by_key"
    /\ ~Raised(result)
    /\ result.val
    /\ call.args[2].t = "str"
    /\ obj.min_position > 0
    /\ call.args[1] >= 2 ^ (obj.max_position + 1)

\* C3: decode_value(v) returns the label of the bits of the group in v, and
\* None, without raising, exactly when that key has no label; with a complete
\* value map it never returns None.
C3_DecodeValue ==
    call.fn = "BitGroup.decode_value"
        => LET k == ExtractedKey(obj, call.args[1])
           IN  /\ ~Raised(result)
               /\ DictHas(obj.value_map, k)
                      => result.val = PyStr(DictGet(obj.value_map, k))
               /\ ~DictHas(obj.value_map, k) <=> result.val = PyNone
               /\ CompleteMap(obj) => result.val # PyNone

C3_Witness ==
    /\ call.fn = "BitGroup.decode_value"
    /\ result.val = PyNone
    /\ obj.min_position > 0
    /\ obj.max_position > obj.min_position
    /\ call.args[1] >= 2 ^ obj.min_position

\* C4: building a BitMask, from a list or from a schema, in which a bit
\* position lies in two groups raises, in every order of the groups, and no
\* BitMask ever holds two groups that share a position.
C4_OverlapRejected ==
    /\ (call.fn = "BitMask" /\ ListOverlaps(call.args[1]))
           => (Raised(result) /\ obj = NoObject)
    /\ (call.fn = "BitMask.from_dict" /\ SchemaOverlaps(call.args[1]))
           => (Raised(result) /\ obj = NoObject)
    /\ obj.cls = "BitMask" => ~ListOverlaps(obj.bits)

C4_Witness ==
    /\ call.fn = "BitMask"
    /\ Len(call.args[1]) = 2
    /\ call.args[1][1].cls = "BitGroup"
    /\ call.args[1][2].cls = "BitGroup"
    /\ call.args[1][1].description # call.args[1][2].description
    /\ call.args[1][1].min_position > call.args[1][2].min_position
    /\ call.args[1][1].max_position = call.args[1][2].max_position
    /\ Raised(result)

\* C5: format_bits_info of a schema already in canonical form, multi-digit
\* positions included, succeeds and returns a schema equal to it.
C5_Idempotent ==
    (call.fn = "format_bits_info" /\ CanonicalSchema(call.args[1]))
        => (~Raised(result) /\ SchemaEq(result.val, call.args[1]))

C7_NegativeSynthesized ==
    /\ (call.fn = "format_bits_info" /\ ~Raised(result))
           => \A x \in DOMAIN call.args[1] :
                  (/\ call.args[1][x][2].t = "str"
                   /\ Cardinality(KeyRange(call.args[1][x][1])) = 1)
                      => DictEq(result.val[x][2], WithNegative(call.args[1][x][2].s))
    /\ (call.fn = "BitMask.from_dict" /\ ~Raised(result))
           => \A x \in DOMAIN call.args[1] :
                  (/\ call.args[1][x][2].t = "str"
                   /\ Cardinality(KeyRange(call.args[1][x][1])) = 1)
                      => DictEq(BitMask_to_dict(obj)[x][2],
                                WithNegative(call.args[1][x][2].s))

C9_Bit ==
    (obj.cls = "Bit" /\ obj.position >= 0)
        => /\ call.fn = "Bit.min_value" => result = Ret(2 ^ obj.position)
           /\ call.fn = "Bit.max_value" => result = Ret(2 ^ (obj.position + 1) - 1)
           /\ call.fn = "Bit.is_positive"
                  => result = Ret((call.args[1] \div (2 ^ obj.position)) % 2 = 1)
           /\ call.fn = "Bit.is_negative"
                  => result = Ret((call.args[1] \div (2 ^ obj.position)) % 2 # 1)

C9_Witness ==
    /\ call.fn = "Bit.is_negative"
    /\ obj.position > 0
    /\ result = Ret(FALSE)
    /\ call.args[1] > 2 ^ obj.position

\* C10: format_bit_key compares start and end as integers: a key
\* "start-end-name" is rejected when start > end, whatever the numbers of
\* digits, and accepted when start <= end and the name is not empty.
C10_IntegerOrder ==
    call.fn = "format_bit_key"
        => LET parts == Split(str(call.args[1]), 2)
           IN  (Len(parts) = 3 /\ IsDecimal(parts[1]) /\ IsDecimal(parts[2]))
                   => /\ DigitsVal(parts[1]) > DigitsVal(parts[2]) => Raised(result)
                      /\ (DigitsVal(parts[1]) <= DigitsVal(parts[2]) /\ parts[3] # <<>>)
                             => ~Raised(result)

\* C11: format_bit_key expands a two-part key "pos-name", pos an integer and
\* name a non-empty str that is no integer, to "pos-pos-name", and raises for
\* a key with no dash, with a first part that is no integer, with an empty
\* name, or with two integer parts and no name.
C11_FormatBitKey ==
    call.fn = "format_bit_key"
        => LET parts == Split(str(call.args[1]), 2)
               name == parts[Len(parts)]
           IN  /\ (/\ Len(parts) = 2
                   /\ IntParses(parts[1])
                   /\ name # <<>>
                   /\ ~IntParses(name))
                      => result = Ret(parts[1] \o <<"-">> \o parts[1] \o <<"-">> \o name)
               /\ Len(parts) = 1 => Raised(result)
               /\ ~IntParses(parts[1]) => Raised(result)
               /\ (Len(parts) >= 2 /\ name = <<>>) => Raised(result)
               /\ (Len(parts) = 2 /\ IntParses(parts[1]) /\ IntParses(parts[2]))
                      => Raised(result)

\* C12: in a schema format_bits_info accepts, the value map of an entry of
\* width w = end - start + 1 has at most 2^w entries and every key k is an
\* integer with 0 <= k < 2^w, and every label is a non-empty str that is no
\* integer: a negative key, a key >= 2^w, a key that is no integer, an empty
\* label and an integer label are rejected.
C12_ValueMapFits ==
    (call.fn = "format_bits_info" /\ ~Raised(result))
        => \A x \in DOMAIN call.args[1] :
               LET parts == Split(result.val[x][1], 2)
                   w == IntOfStr(parts[2]) - IntOfStr(parts[1]) + 1
                   info == call.args[1][x][2]
                   out == result.val[x][2]
               IN  /\ Len(out) <= 2 ^ w
                   /\ \A y \in DOMAIN out :
                          /\ IntParses(out[y][1])
                          /\ 0 <= IntOfStr(out[y][1])
                          /\ IntOfStr(out[y][1]) < 2 ^ w
                          /\ out[y][2] # <<>>
                          /\ ~IntParses(out[y][2])
                   /\ info.t = "dict"
                          => \A y \in DOMAIN info.d :
                                 /\ is_int(info.d[y][1])
                                 /\ 0 <= int(info.d[y][1])
                                 /\ int(info.d[y][1]) < 2 ^ w
                                 /\ info.d[y][2] # <<>>
                                 /\ ~IntParses(info.d[y][2])

\* what C13 says of a BitGroup: 0 <= min_position <= max_position, a value
\* map that is not empty with every key in [0, 2^width), n_values = 2^width =
\* group_mask + 1, and a single bit with one label has it at key 1
GroupInvariant(group) ==
    LET width == group.max_position - group.min_position + 1
    IN  /\ 0 <= group.min_position
        /\ group.min_position <= group.max_position
        /\ group.value_map # <<>>
        /\ \A x \in DOMAIN group.value_map :
               0 <= group.value_map[x][1] /\ group.value_map[x][1] < 2 ^ width
        /\ group.n_values = 2 ^ width
        /\ group.n_values = BitGroup_group_mask(group) + 1
        /\ (width = 1 /\ Len(group.value_map) = 1) => group.value_map[1][1] = 1

\* arguments of BitGroup(...) with integer positions that would make a group
\* that breaks GroupInvariant
BreaksGroupInvariant(min_position, max_position, value_map) ==
    /\ is_int(min_position)
    /\ is_int(max_position)
    /\ \/ int(min_position) < 0
       \/ int(min_position) > int(max_position)
       \/ value_map = <<>>
       \/ \E x \in DOMAIN value_map :
              /\ is_int(value_map[x][1])
              /\ \/ int(value_map[x][1]) < 0
                 \/ int(value_map[x][1])
                        >= 2 ^ (int(max_position) - int(min_position) + 1)
       \/ /\ int(min_position) = int(max_position)
          /\ Len(value_map) = 1
          /\ is_int(value_map[1][1])
          /\ int(value_map[1][1]) # 1

\* C13: every BitGroup that was built satisfies GroupInvariant, alone or as a
\* group of a BitMask, and a construction that would break it raises.
C13_GroupInvariant ==
    /\ obj.cls = "BitGroup" => GroupInvariant(obj)
    /\ obj.cls = "BitMask" => \A x \in DOMAIN obj.bits : GroupInvariant(obj.bits[x])
    /\ (/\ call.fn = "BitGroup"
        /\ BreaksGroupInvariant(call.args[2], call.args[3], call.args[4]))
           => (Raised(result) /\ obj = NoObject)

C13_Witness ==
    /\ call.fn = "BitGroup"
    /\ int(call.args[2]) = int(call.args[3])
    /\ int(call.args[2]) > 0
    /\ Len(call.args[4]) = 1
    /\ call.args[4][1][1] = PyInt(0)
    /\ Raised(result)

\* C14: BitGroup.from_dict raises for a dict with no entry or with more than
\* one, and for one entry whose value map is empty; and for a group g that was
\* built, from_dict(g.to_dict()) has the min_position, max_position,
\* description and value_map of g.
C14_GroupFromDict ==
    call.fn = "BitGroup.from_dict"
        => LET bit_info == call.args[1]
           IN  /\ Len(bit_info) # 1 => Raised(result)
               /\ (/\ Len(bit_info) = 1
                   /\ bit_info[1][2].t = "dict"
                   /\ bit_info[1][2].d = <<>>) => Raised(result)
               /\ (/\ obj.cls = "BitGroup"
                   /\ bit_info = AsSchema(BitGroup_to_dict(obj)))
                      => /\ ~Raised(result)
                         /\ result.val.cls = "BitGroup"
                         /\ result.val.min_position = obj.min_position
                         /\ result.val.max_position = obj.max_position
                         /\ result.val.description = obj.description
                         /\ result.val.value_map = obj.value_map

C14_Witness ==
    /\ call.fn = "BitGroup.from_dict"
    /\ obj.cls = "BitGroup"
    /\ call.args[1] = AsSchema(BitGroup_to_dict(obj))
    /\ obj.min_position < obj.max_position
    /\ Len(obj.value_map) > 1
    /\ ~Raised(result)

\* C15: a BitGroup built with description D and value map M has description D
\* and to_dict() = {"min-max-D": {str(k): M[k]}}, D and the labels spelled as
\* they were given, upper-case letters included.
C15_SpellingKept ==
    (call.fn = "BitGroup" /\ ~Raised(result))
        => /\ obj.description = call.args[1]
           /\ BitGroup_to_dict(obj)[1][1]
                  = StrOfInt(int(call.args[2])) \o <<"-">>
                        \o StrOfInt(int(call.args[3])) \o <<"-">> \o call.args[1]
           /\ DictEq(BitGroup_to_dict(obj)[1][2],
                     [x \in DOMAIN call.args[4] |->
                         <<StrOfInt(int(call.args[4][x][1])), call.args[4][x][2]>>])

\* the description an element of the list given to BitMask brings: a Bit is
\* promoted with its positive label as description
ItemDescription(bit) == IF bit.cls = "Bit" THEN bit.positive ELSE bit.description

\* the category names an entry of a schema carries: the name of its key, or,
\* for a bare "pos" key, the name taken from its value
EntryNames(entry) ==
    LET parts == Split(str(entry[1]), 2)
    IN  IF Len(parts) > 1 THEN {parts[Len(parts)]}
        ELSE IF entry[2].t = "str" THEN {entry[2].s}
        ELSE IF entry[2].t = "dict" /\ InfoGetOne(entry[2].d) # PyNone
        THEN {InfoGetOne(entry[2].d).s}
        ELSE {}

\* C16: the groups of a BitMask have pairwise distinct descriptions: BitMask
\* of a list raises when two of its elements bring the same description, and
\* format_bits_info, also inside BitMask.from_dict, raises when two entries
\* of the schema carry the same category name.
C16_DistinctDescriptions ==
    /\ obj.cls = "BitMask"
           => \A x, y \in DOMAIN obj.bits :
                  x # y => obj.bits[x].description # obj.bits[y].description
    /\ (/\ call.fn = "BitMask"
        /\ \E x, y \in DOMAIN call.args[1] :
               /\ x # y
               /\ ItemDescription(call.args[1][x]) = ItemDescription(call.args[1][y]))
           => (Raised(result) /\ obj = NoObject)
    /\ (/\ call.fn \in {"format_bits_info", "BitMask.from_dict"}
        /\ \E x, y \in DOMAIN call.args[1] :
               /\ x # y
               /\ EntryNames(call.args[1][x]) \cap EntryNames(call.args[1][y]) # {})
           => (Raised(result) /\ obj = NoObject)

C16_Witness ==
    /\ call.fn = "BitMask"
    /\ Len(call.args[1]) = 2
    /\ call.args[1][1].cls = "Bit"
    /\ call.args[1][2].cls = "Bit"
    /\ ItemDescription(call.args[1][1]) = ItemDescription(call.args[1][2])
    /\ ~ListOverlaps(call.args[1])
    /\ Raised(result)

\* the highest position a group of the list claims
HighestPosition(bits) ==
    CHOOSE m \in {bits[x].max_position : x \in DOMAIN bits} :
        \A x \in DOMAIN bits : bits[x].max_position <= m

SchemaPositions(formatted) ==
    UNION {KeyRange(PyStr(formatted[x][1])) : x \in DOMAIN formatted}

\* two entries of a formatted schema claim the same position
FormattedOverlaps(formatted) ==
    \E x, y \in DOMAIN formatted :
        /\ x # y
        /\ KeyRange(PyStr(formatted[x][1])) \cap KeyRange(PyStr(formatted[y][1])) # {}

\* a schema a BitHandler is to take: the normaliser accepts it, it is not
\* empty and no position is claimed twice
HandlerSchema(bits) ==
    /\ ~Raised(format_bits_info(bits))
    /\ format_bits_info(bits).val # <<>>
    /\ ~FormattedOverlaps(format_bits_info(bits).val)

\* C18: BitHandler(S) of a valid schema S without bit_length succeeds with
\* bit_length = max(all_bits) - min(all_bits) + 1, all_bits being the
\* positions the canonical keys cover; with a bit_length it has that one.
C18_BitLength ==
    (call.fn = "BitHandler" /\ HandlerSchema(call.args[1]))
        => LET all_bits == SchemaPositions(format_bits_info(call.args[1]).val)
               highest == CHOOSE m \in all_bits : \A x \in all_bits : x <= m
               lowest == CHOOSE m \in all_bits : \A x \in all_bits : m <= x
           IN  /\ ~Raised(result)
               /\ obj.cls = "BitHandler"
               /\ obj.bit_length = IF call.args[2] = PyNone
                                   THEN highest - lowest + 1
                                   ELSE call.args[2].i

\* C19: BitHandler(S) of a schema in which two entries claim the same bit
\* position raises, with and without bit_length, so that no BitHandler, and
\* no decode_image, ever has such a schema.
C19_EagerValidation ==
    /\ (call.fn = "BitHandler" /\ SchemaOverlaps(call.args[1]))
           => (Raised(result) /\ obj = NoObject)
    /\ obj.cls = "BitHandler" => ~FormattedOverlaps(obj.bits)

\* the bands C20 expects of one entry "start-end-name" for the pixel value v:
\* one per mapped key k, named by its label, 1 when the bits start .. end of
\* v are k
RECURSIVE ExpectedBands(_, _)
ExpectedBands(formatted, v) ==
    IF formatted = <<>> THEN <<>>
    ELSE LET parts == Split(Head(formatted)[1], 2)
             start == IntOfStr(parts[1])
             end == IntOfStr(parts[2])
             values == Head(formatted)[2]
         IN  [y \in DOMAIN values |->
                 <<values[y][2],
                   IF (v \div (2 ^ start)) % (2 ^ (end - start + 1))
                          = IntOfStr(values[y][1])
                   THEN 1 ELSE 0>>]
             \o ExpectedBands(Tail(formatted), v)

\* C20: decode_image of a BitHandler on a pixel value v returns, without
\* raising, one band per entry and mapped key, in the order of the schema,
\* that is 1 exactly when the bits of the entry in v are that key.
C20_DecodeImage ==
    call.fn = "BitHandler.decode_image"
        => /\ ~Raised(result)
           /\ result.val = ExpectedBands(obj.bits, call.args[1])

\* C21: every key of a schema format_bits_info returns is "start-end-name"
\* with start and end written in decimal digits only and a name that is not
\* empty, and every value is a mapping from decimal-digit keys to str labels.
C21_CanonicalOutput ==
    (call.fn = "format_bits_info" /\ ~Raised(result))
        => \A x \in DOMAIN result.val :
               LET parts == Split(result.val[x][1], 2)
                   out == result.val[x][2]
               IN  /\ Len(parts) = 3
                   /\ AllDigits(parts[1])
                   /\ AllDigits(parts[2])
                   /\ parts[3] # <<>>
                   /\ \A y \in DOMAIN out : AllDigits(out[y][1])

\* C22: a Bit that was constructed has position >= 0: Bit(position, ...) with
\* a negative integer position raises.
C22_BitPosition ==
    call.fn = "Bit"
        => /\ ~Raised(result) => obj.position >= 0
           /\ (is_int(call.args[1]) /\ int(call.args[1]) < 0) => Raised(result)

\* C23: for a Bit b at position p and a description d, b.to_bit_group(d) is
\* a group with min_position = max_position = p and the value map
\* {0: b.negative, 1: b.positive}, and for every v >= 0 the group says of key
\* 1 what b.is_positive(v) says and of key 0 what b.is_negative(v) says.
C23_ToBitGroup ==
    call.fn = "Bit.to_bit_group"
        => /\ ~Raised(result)
           /\ result.val.min_position = obj.position
           /\ result.val.max_position = obj.position
           /\ result.val.value_map = <<<<0, obj.negative>>, <<1, obj.positive>>>>
           /\ \A v \in Values :
                  /\ BitGroup_is_positive_by_key(result.val, v, PyInt(1))
                         = Bit_is_positive(obj, PyInt(v))
                  /\ BitGroup_is_positive_by_key(result.val, v, PyInt(0))
                         = Bit_is_negative(obj, PyInt(v))

\* the stored labels of a group are pairwise distinct
DistinctLabels(group) ==
    \A x, y \in DOMAIN group.value_map :
        group.value_map[x][2] = group.value_map[y][2] => x = y

\* C24: for a BitGroup whose stored labels are pairwise distinct, a key k of
\* the value map and v >= 0, is_positive_by_description(v, value_map[k]) is
\* is_positive_by_key(v, k); a description that is no stored label raises;
\* is_positive(v, key, description) raises when both or neither of key and
\* description are given.
C24_IsPositiveByDescription ==
    (obj.cls = "BitGroup" /\ DistinctLabels(obj))
        => /\ call.fn = "BitGroup.is_positive_by_description"
                  => /\ \A x \in DOMAIN obj.value_map :
                            obj.value_map[x][2] = call.args[2]
                                => result = BitGroup_is_positive_by_key(
                                       obj, call.args[1], PyInt(obj.value_map[x][1]))
                     /\ (\A x \in DOMAIN obj.value_map :
                             obj.value_map[x][2] # call.args[2])
                            => Raised(result)
           /\ call.fn = "BitGroup.is_positive"
                  => (((call.args[2] = PyNone) <=> (call.args[3] = PyNone))
                          => Raised(result))

C24_Witness ==
    /\ obj.cls = "BitGroup"
    /\ DistinctLabels(obj)
    /\ Len(obj.value_map) > 1
    /\ obj.min_position > 0
    /\ call.fn = "BitGroup.is_positive_by_description"
    /\ call.args[2] = obj.value_map[1][2]
    /\ obj.value_map[1][1] = 0
    /\ result = Ret(TRUE)
    /\ call.args[1] > 0

\* the names C25 gives to the values of a group
ClaimedBitValues(group) ==
    LET label(k) == DictGet(group.value_map, k)
    IN  IF group.max_position > group.min_position
        THEN [x \in DOMAIN group.value_map |->
                  group.description \o <<" ", "-", " ">> \o group.value_map[x][2]]
        ELSE IF Len(group.value_map) = 1 THEN <<group.description>>
        ELSE IF group.description = label(1) THEN <<group.description, label(0)>>
        ELSE <<label(0), group.description>>

\* "{description} - {label}" for every mapped value, in value map order
PatternNames(group) ==
    [x \in DOMAIN group.value_map |->
         group.description \o <<" ", "-", " ">> \o group.value_map[x][2]]

\* the names of a list of groups, one group after the other
RECURSIVE ClaimedMaskValues(_)
ClaimedMaskValues(bits) ==
    IF bits = <<>> THEN <<>>
    ELSE ClaimedBitValues(Head(bits)) \o ClaimedMaskValues(Tail(bits))

RECURSIVE PatternMaskNames(_)
PatternMaskNames(bits) ==
    IF bits = <<>> THEN <<>>
    ELSE PatternNames(Head(bits)) \o PatternMaskNames(Tail(bits))

BandNames(image) == [x \in DOMAIN image |-> image[x][1]]

\* bit_values of a group and of a mask are the names C25 describes
BitValuesAsClaimed ==
    /\ call.fn = "BitGroup.bit_values" => result = Ret(ClaimedBitValues(obj))
    /\ call.fn = "BitMask.bit_values"
           => result = Ret(ClaimedMaskValues(obj.bits))

\* C25: bit_values of a group is "{description} - {label}" for every mapped
\* value in value map order when the width is > 1, [description] for a single
\* bit with one value, [label of 0, description] for a single bit with both
\* values, [description, label of 0] when the description is the label of 1;
\* BitMask.bit_values() is the concatenation over the groups; and get_masks
\* emits bands with these names.
C25_BitValues ==
    /\ BitValuesAsClaimed
    /\ call.fn = "BitGroup.get_masks"
           => BandNames(result.val) = ClaimedBitValues(obj)
    /\ call.fn = "BitMask.get_masks"
           => BandNames(result.val) = ClaimedMaskValues(obj.bits)

\* C25, amended: bit_values is as C25 describes, of the stored description
\* and labels; get_masks emits for a group of any width whose stored labels
\* are pairwise distinct one band "{description} - {label}" per mapped value
\* in value map order, which are the names of bit_values for the groups of
\* width > 1 only.
C25_BitValuesAndBands ==
    /\ BitValuesAsClaimed
    /\ (call.fn = "BitGroup.get_masks" /\ DistinctLabels(obj))
           => /\ BandNames(result.val) = PatternNames(obj)
              /\ obj.max_position > obj.min_position
                     <=> BandNames(result.val) = BitGroup_bit_values(obj)
    /\ (call.fn = "BitMask.get_masks"
            /\ \A x \in DOMAIN obj.bits : DistinctLabels(obj.bits[x]))
           => /\ BandNames(result.val) = PatternMaskNames(obj.bits)
              /\ (\A x \in DOMAIN obj.bits :
                      obj.bits[x].max_position > obj.bits[x].min_position)
                     <=> BandNames(result.val) = BitMask_bit_values(obj)

C25_Witness ==
    /\ call.fn = "BitMask.get_masks"
    /\ Len(obj.bits) = 2
    /\ obj.bits[1].max_position = obj.bits[1].min_position
    /\ Len(obj.bits[1].value_map) = 2
    /\ obj.bits[1].description = DictGet(obj.bits[1].value_map, 1)
    /\ obj.bits[2].max_position > obj.bits[2].min_position
    /\ Len(obj.bits[2].value_map) = 2
    /\ BandNames(result.val) # BitMask_bit_values(obj)

\* C26: format_bits_info drops no entry of a value map: a schema it accepts
\* comes back with as many entries in every value map as were given, and a
\* value map with two keys that are the same integer ("1" and "01", 1 and
\* "1") is rejected.
C26_NoEntryDropped ==
    (call.fn = "format_bits_info" /\ ~Raised(result))
        => \A x \in DOMAIN call.args[1] :
               call.args[1][x][2].t = "dict"
                   => /\ Len(result.val[x][2]) = Len(call.args[1][x][2].d)
                      /\ \A y, z \in DOMAIN call.args[1][x][2].d :
                             int(call.args[1][x][2].d[y][1])
                                 = int(call.args[1][x][2].d[z][1]) => y = z

\* C27: a lookup takes the spelling of the construction: the mask built from
\* a schema returns for every category name D, as the schema writes it, the
\* group of that entry, and a group resolves every label L, as its value map
\* writes it, to the key of L, upper-case letters or not.
C27_LookupSpelling ==
    /\ call.fn = "BitMask.from_dict().get_group_by_description"
           => \A x \in DOMAIN call.args[1] :
                  call.args[2] \in EntryNames(call.args[1][x])
                      => /\ ~Raised(result)
                         /\ result.val = obj.bits[x]
    /\ call.fn = "BitGroup().is_positive_by_description"
           => \A y \in DOMAIN call.args[4] :
                  call.args[4][y][2] = call.args[6]
                      => result = Ret(ExtractedKey(obj, call.args[5])
                                          = int(call.args[4][y][1]))

=============================================================================
